---- MODULE Spec2Model ----
(***************************************************************************)
(* Model of mm.c: a malloc implementation with segregated free lists kept  *)
(* on the heap, boundary-tag blocks, coalescing free and an in-place       *)
(* realloc.                                                                *)
(*                                                                         *)
(* Memory is an array of 8-byte words indexed by byte address.  Every      *)
(* header, footer, link field, bucket head and payload word of the C       *)
(* program is a cell of mem, so stale contents are read exactly as the     *)
(* code reads them.  A C function f(args) is the operator f(s, args) from  *)
(* a machine state s = [mem, brk, fault, oom, ret] to the machine state    *)
(* after the call; s.ret carries the value the function returns.           *)
(*                                                                         *)
(* An access outside the heap provider's array, or to an address that is   *)
(* not word aligned, or a list walk that does not terminate, is behaviour  *)
(* the C program does not define: the machine state is marked fault and    *)
(* the program takes no further step.                                      *)
(***************************************************************************)
EXTENDS Integers, Sequences, FiniteSets, TLC

(***************************************************************************)
(* Bounds of the model.                                                    *)
(***************************************************************************)
\* words the heap provider can hand out in total (bucket array included)
MaxHeapWords == 56
\* pointers the client holds at the same time
MaxLive == 3
\* API calls in one run
MaxOps == 7
\* words the heap provider can hand out in runs with blocks above the
\* big-block threshold
BigHeapWords == 160

(***************************************************************************)
(* Program constants and macros.                                           *)
(***************************************************************************)
ALIGNMENT == 8

MAXPOW == 25

SIZE_T_SIZE == 8

\* address returned by mem_heap_lo(); real heap addresses are far larger
\* than any block size, and so is this one
HeapLo == 65536

NULL == 0

\* the word addresses of a provider array of the given number of words
Addrs(words) == {HeapLo + 8 * k : k \in 0..(words - 1)}

ALIGN(size) == ((size + (ALIGNMENT - 1)) \div 8) * 8

GETSIZE(header) == header - (header % 2)

GETDIRTYBIT(header) == header % 2

MinBlock == ALIGN(4 * SIZE_T_SIZE)

\* 50 * SIZE_T_SIZE, the "big block" threshold of mm_malloc
BigBlock == 50 * SIZE_T_SIZE

(***************************************************************************)
(* Memory access.                                                          *)
(***************************************************************************)
\* mem_max_addr of memlib: the end of the provider's array
MaxAddr(s) == HeapLo + 8 * Cardinality(DOMAIN s.mem)

\* walks longer than the number of words of the array never end
Fuel(s) == Cardinality(DOMAIN s.mem)

Rd(s, a) == IF a \in DOMAIN s.mem THEN s.mem[a] ELSE 0

Touch(s, a) == IF a \in DOMAIN s.mem THEN s ELSE [s EXCEPT !.fault = TRUE]

Wr(s, a, v) ==
    IF a \in DOMAIN s.mem THEN [s EXCEPT !.mem[a] = v]
    ELSE [s EXCEPT !.fault = TRUE]

GETFOOTER(s, header_ptr) == header_ptr + GETSIZE(Rd(s, header_ptr)) - SIZE_T_SIZE

GETNEXTBLOCK(s, header_ptr) == header_ptr + GETSIZE(Rd(s, header_ptr))

GETNEXTFREE(s, header_ptr) == Rd(s, header_ptr + SIZE_T_SIZE)

GETPREVFREE(s, header_ptr) == Rd(s, header_ptr + 2 * SIZE_T_SIZE)

\* address of free_seglist[index]; the array sits at mem_heap_lo()
free_seglist(index) == HeapLo + 8 * index

\* memmove(dst, src, n): n bytes, overlap safe.  The model moves whole
\* words: a trailing part of a word is moved as the word (every value of
\* the model fits the low bytes of a little-endian word).
memmove(s, dst, src, n) ==
    LET len == ((n + 7) \div 8) * 8
        ok  == /\ dst \in DOMAIN s.mem /\ src \in DOMAIN s.mem
               /\ (len = 0 \/ ((dst + len - 8) \in DOMAIN s.mem
                               /\ (src + len - 8) \in DOMAIN s.mem))
    IN  IF ~ok THEN [s EXCEPT !.fault = TRUE]
        ELSE [s EXCEPT !.mem = [a \in DOMAIN s.mem |->
                 IF a >= dst /\ a < dst + len THEN s.mem[a - dst + src]
                 ELSE s.mem[a]]]

(***************************************************************************)
(* The heap provider (memlib).                                             *)
(***************************************************************************)
mem_heap_lo == HeapLo

mem_heap_hi(s) == s.brk - 1

mem_heapsize(s) == s.brk - HeapLo

\* mem_sbrk(incr): the old break, or the failure value the callers test for
mem_sbrk(s, incr) ==
    IF incr < 0 \/ s.brk + incr > MaxAddr(s)
    THEN [s EXCEPT !.ret = NULL, !.oom = TRUE]
    ELSE [s EXCEPT !.ret = s.brk, !.brk = s.brk + incr]

(***************************************************************************)
(* seglist_index                                                           *)
(***************************************************************************)
RECURSIVE BitLen(_)
BitLen(size) == IF size <= 0 THEN 0 ELSE 1 + BitLen(size \div 2)

seglist_index(size) ==
    IF size < 64 THEN 0
    ELSE IF BitLen(size) - 6 < MAXPOW THEN BitLen(size) - 6
    ELSE MAXPOW - 1

(***************************************************************************)
(* get_optimal_free_block: first entry large enough, from the bucket of    *)
(* size upward.  -1 stands for a walk that leaves the heap or never ends.  *)
(***************************************************************************)
RECURSIVE ScanBucket(_, _, _, _)
ScanBucket(s, free_list, size, fuel) ==
    IF free_list = NULL THEN NULL
    ELSE IF fuel = 0 \/ free_list \notin DOMAIN s.mem THEN -1
    ELSE IF GETSIZE(Rd(s, free_list)) >= size THEN free_list
    ELSE ScanBucket(s, GETNEXTFREE(s, free_list), size, fuel - 1)

RECURSIVE ScanFrom(_, _, _)
ScanFrom(s, index, size) ==
    IF index >= MAXPOW THEN NULL
    ELSE LET r == ScanBucket(s, Rd(s, free_seglist(index)), size, Fuel(s))
         IN  IF r # NULL THEN r ELSE ScanFrom(s, index + 1, size)

get_optimal_free_block(s, size) == ScanFrom(s, seglist_index(size), size)

(***************************************************************************)
(* remove_link                                                             *)
(***************************************************************************)
remove_link(s, ptr) ==
    LET nxt == GETNEXTFREE(s, ptr)
        prv == GETPREVFREE(s, ptr)
        idx == seglist_index(GETSIZE(Rd(s, ptr)))
        s0  == Touch(Touch(s, ptr), ptr + 2 * SIZE_T_SIZE)
    IN  IF nxt = NULL /\ prv = NULL
          THEN Wr(s0, free_seglist(idx), NULL)
        ELSE IF nxt = NULL
          THEN Wr(s0, prv + SIZE_T_SIZE, NULL)
        ELSE IF prv = NULL
          THEN Wr(Wr(s0, nxt + 2 * SIZE_T_SIZE, NULL), free_seglist(idx), nxt)
        ELSE Wr(Wr(s0, prv + SIZE_T_SIZE, nxt), nxt + 2 * SIZE_T_SIZE, prv)

(***************************************************************************)
(* add_to_list                                                             *)
(***************************************************************************)
\* the walk of line 279: it compares GETSIZE of the next link itself (an
\* address) with the size of the block to insert
RECURSIVE InsertSlot(_, _, _, _)
InsertSlot(s, free_slot, size, fuel) ==
    IF fuel = 0 \/ free_slot \notin DOMAIN s.mem THEN -1
    ELSE IF GETNEXTFREE(s, free_slot) # NULL
            /\ GETSIZE(GETNEXTFREE(s, free_slot)) < size
      THEN InsertSlot(s, GETNEXTFREE(s, free_slot), size, fuel - 1)
    ELSE free_slot

\* line 282: the entry after the slot, when there is one, points back to ptr
SetPrevOfNext(s, nxt, ptr) ==
    IF nxt # NULL THEN Wr(s, nxt + 2 * SIZE_T_SIZE, ptr) ELSE s

\* lines 280-283: ptr is linked between free_slot and the entry after it
InsertAfter(s, ptr, free_slot, nxt) ==
    IF free_slot = -1 THEN [s EXCEPT !.fault = TRUE]
    ELSE Wr(SetPrevOfNext(Wr(Wr(s, ptr + SIZE_T_SIZE, nxt),
                             ptr + 2 * SIZE_T_SIZE, free_slot),
                          nxt, ptr),
            free_slot + SIZE_T_SIZE, ptr)

\* lines 266-283 for the bucket index and the head of that bucket
AddToBucket(s, ptr, size, index, head) ==
    IF head = NULL
    THEN Wr(Wr(Wr(s, free_seglist(index), ptr),
               ptr + SIZE_T_SIZE, NULL),
            ptr + 2 * SIZE_T_SIZE, NULL)
    ELSE InsertAfter(s, ptr, InsertSlot(s, head, size, Fuel(s)),
                     GETNEXTFREE(s, InsertSlot(s, head, size, Fuel(s))))

add_to_list(s, ptr) ==
    AddToBucket(Touch(s, ptr), ptr, GETSIZE(Rd(s, ptr)),
                seglist_index(GETSIZE(Rd(s, ptr))),
                Rd(s, free_seglist(seglist_index(GETSIZE(Rd(s, ptr))))))

(***************************************************************************)
(* mm_malloc                                                               *)
(***************************************************************************)
\* lines 139-140: the block size for a request
BlockSize(size) ==
    IF ALIGN(size + 2 * SIZE_T_SIZE) < MinBlock THEN MinBlock
    ELSE ALIGN(size + 2 * SIZE_T_SIZE)

\* the footer of the block at p, located through its header, is written
SetFooter(s, p, header) == Wr(s, GETFOOTER(s, p), header)

\* lines 222-223 (and 158-159): header, then footer, of a block
SetTags(s, p, header) == SetFooter(Wr(s, p, header), p, header)

\* lines 158-159, 222-229: the block at p is tagged and its payload returned
HandOut(s, p, new_header) ==
    [SetTags(s, p, new_header) EXCEPT !.ret = p + SIZE_T_SIZE]

\* lines 150-159: the block is split when the rest can hold a block
MallocSplit(s, p, new_size, old_size) ==
    IF old_size - new_size >= MinBlock
    THEN HandOut(add_to_list(SetTags(s, p + new_size, old_size - new_size),
                             p + new_size),
                 p, new_size + 1)
    ELSE HandOut(s, p, old_size + 1)

\* lines 144-160: a free block p was found
MallocFit(s, p, new_size) ==
    MallocSplit(remove_link(s, p), p, new_size,
                GETSIZE(Rd(remove_link(s, p), p)))

\* lines 179-181: the last block, free and big, is extended and handed out;
\* s is the state after mem_sbrk, whose result the code does not look at
MallocGrowLast(s, p, new_size) ==
    HandOut(remove_link(s, p), p, new_size + 1)

\* lines 190-192 and 210-212: a new block at the old break, s after mem_sbrk
MallocFresh(s, new_size) ==
    IF s.ret = NULL THEN s ELSE HandOut(s, s.ret, new_size + 1)

\* lines 214-219: a new block and a free one of the same size behind it
MallocFreshPair(s, new_size) ==
    IF s.ret = NULL THEN s
    ELSE HandOut(add_to_list(SetTags(s, s.ret + new_size, new_size),
                             s.ret + new_size),
                 s.ret, new_size + 1)

\* lines 161-224: no free block fits, the heap is extended
MallocExtend(s, new_size) ==
    LET end  == mem_heap_hi(s) - (SIZE_T_SIZE - 1)
        last == Rd(s, mem_heap_hi(s) - (SIZE_T_SIZE - 1))
    IN  IF mem_heapsize(s) # 0 /\ GETDIRTYBIT(last) = 0
        THEN IF GETSIZE(last) > BigBlock
             THEN MallocGrowLast(mem_sbrk(s, new_size - GETSIZE(last)),
                                 end - GETSIZE(last) + SIZE_T_SIZE, new_size)
             ELSE MallocFresh(mem_sbrk(s, new_size), new_size)
        ELSE IF new_size > BigBlock
             THEN MallocFresh(mem_sbrk(s, new_size), new_size)
             ELSE MallocFreshPair(mem_sbrk(s, new_size * 2), new_size)

\* lines 142-224 for the free block p the search returned
MallocPlace(s, new_size, p) ==
    IF p = -1 THEN [s EXCEPT !.fault = TRUE, !.ret = NULL]
    ELSE IF p # NULL THEN MallocFit(s, p, new_size)
    ELSE MallocExtend(s, new_size)

\* lines 139-224 for the block size new_size
MallocSized(s, new_size) ==
    MallocPlace(s, new_size, get_optimal_free_block(s, new_size))

\* mm_malloc without the test of line 137
mm_malloc_serves_zero(s, size) == MallocSized(s, BlockSize(size))

mm_malloc(s, size) ==
    IF size = 0 THEN [s EXCEPT !.ret = NULL]
    ELSE MallocSized(s, BlockSize(size))

(***************************************************************************)
(* mm_coalesce: s.ret is *header_ptr after the call                        *)
(***************************************************************************)
\* address of the first block: the bucket array comes first
start == mem_heap_lo + ALIGN(MAXPOW * 8)

\* header of the previous block, located through its footer
PrevHeader(s, prev_footer) ==
    prev_footer - GETSIZE(Rd(s, prev_footer)) + SIZE_T_SIZE

\* lines 300 and 313: the header at header_ptr grows by the size at other
Absorb(s, header_ptr, other) ==
    Wr(s, header_ptr, Rd(s, header_ptr) + GETSIZE(Rd(s, other)))

\* lines 296-302: the next block is merged when it is free
CoalesceNext(s, header_ptr, next_header) ==
    IF next_header < mem_heap_hi(s) /\ GETDIRTYBIT(Rd(s, next_header)) = 0
    THEN SetFooter(Absorb(remove_link(Touch(s, next_header), next_header),
                          header_ptr, next_header),
                   next_header,
                   Rd(Absorb(remove_link(Touch(s, next_header), next_header),
                             header_ptr, next_header),
                      header_ptr))
    ELSE s

\* lines 308-315: the previous block absorbs this one when it is free
CoalescePrev(s, header_ptr, footer, prev_header) ==
    IF GETDIRTYBIT(Rd(s, prev_header)) = 0
    THEN [Wr(Absorb(remove_link(s, prev_header), prev_header, header_ptr),
             footer,
             Rd(Absorb(remove_link(s, prev_header), prev_header, header_ptr),
                prev_header))
            EXCEPT !.ret = prev_header]
    ELSE [s EXCEPT !.ret = header_ptr]

\* lines 304-315, s after the merge with the next block
CoalesceBack(s, header_ptr, footer, prev_footer) ==
    IF prev_footer <= start THEN [Touch(s, footer) EXCEPT !.ret = header_ptr]
    ELSE CoalescePrev(Touch(Touch(Touch(s, footer), prev_footer),
                            PrevHeader(s, prev_footer)),
                      header_ptr, footer, PrevHeader(s, prev_footer))

\* lines 304-305: the footer of the block and the footer before the block
CoalesceFrom(s, header_ptr) ==
    CoalesceBack(s, header_ptr, GETFOOTER(s, header_ptr),
                 GETFOOTER(s, header_ptr)
                     - GETSIZE(Rd(s, GETFOOTER(s, header_ptr))))

mm_coalesce(s, header_ptr) ==
    CoalesceFrom(CoalesceNext(Touch(s, header_ptr), header_ptr,
                              header_ptr + GETSIZE(Rd(s, header_ptr))),
                 header_ptr)

(***************************************************************************)
(* mm_free: s.ret is 1 when the call printed its warning and returned      *)
(***************************************************************************)
\* line 342: the allocated flag of the header is cleared
ClearFlag(s, header_ptr) == Wr(s, header_ptr, GETSIZE(Rd(s, header_ptr)))

\* lines 339-342, s after mm_coalesce and s.ret the header it left
FreeCoalesced(s) ==
    [ClearFlag(add_to_list(s, s.ret), s.ret) EXCEPT !.ret = 0]

mm_free(s, ptr) ==
    IF (ptr - SIZE_T_SIZE) \notin DOMAIN s.mem
    THEN [s EXCEPT !.fault = TRUE, !.ret = 0]
    ELSE IF GETDIRTYBIT(Rd(s, ptr - SIZE_T_SIZE)) = 0 THEN [s EXCEPT !.ret = 1]
    ELSE FreeCoalesced(mm_coalesce(s, ptr - SIZE_T_SIZE))

(***************************************************************************)
(* mm_realloc                                                              *)
(***************************************************************************)
\* lines 485-492 and 553-557: the block takes the whole span
GrowWhole(s, ptr, prev_header, current_size, total) ==
    [SetTags(memmove(s, prev_header + SIZE_T_SIZE, ptr,
                     current_size - SIZE_T_SIZE),
             prev_header, total + 1)
        EXCEPT !.ret = prev_header + SIZE_T_SIZE]

\* lines 497-503 and 560-566: the block goes to the top of the span and
\* the rest of the span becomes a free block
GrowHigh(s, ptr, prev_header, new_header, current_size, newsize, new_free_size) ==
    [add_to_list(
        SetTags(SetTags(memmove(s, new_header + SIZE_T_SIZE, ptr,
                                current_size - SIZE_T_SIZE),
                        new_header, newsize + 1),
                prev_header, GETSIZE(new_free_size)),
        prev_header)
        EXCEPT !.ret = new_header + SIZE_T_SIZE]

\* lines 480-505 and 545-567: the block grows into the span that starts at
\* prev_header and ends at span_end, both neighbours already unlinked
GrowInSpan(s, ptr, prev_header, span_end, current_size, newsize) ==
    IF (span_end - prev_header) - newsize < 4 * SIZE_T_SIZE
    THEN GrowWhole(s, ptr, prev_header, current_size, span_end - prev_header)
    ELSE GrowHigh(s, ptr, prev_header, span_end - newsize, current_size,
                  newsize, (span_end - prev_header) - newsize)

\* lines 478-505, s after the next block was unlinked
SandwichPrev(s, ptr, newsize, current_size, prev_header) ==
    GrowInSpan(remove_link(s, prev_header), ptr, prev_header,
               (ptr - SIZE_T_SIZE + current_size)
                   + GETSIZE(Rd(remove_link(s, prev_header),
                                ptr - SIZE_T_SIZE + current_size)),
               current_size, newsize)

\* lines 469-506: both neighbours free and large enough together
ReallocSandwich(s, ptr, newsize, current_size) ==
    SandwichPrev(remove_link(s, ptr - SIZE_T_SIZE + current_size), ptr,
                 newsize, current_size,
                 PrevHeader(remove_link(s, ptr - SIZE_T_SIZE + current_size),
                            ptr - 2 * SIZE_T_SIZE))

\* lines 519-536, s after the next block was unlinked, total the size of
\* the two blocks together
NextTake(s, ptr, newsize, total) ==
    IF total - newsize < 4 * SIZE_T_SIZE
    THEN [SetTags(s, ptr - SIZE_T_SIZE, total + 1) EXCEPT !.ret = ptr]
    ELSE [mm_coalesce(
            SetTags(add_to_list(SetTags(s, ptr - SIZE_T_SIZE + newsize,
                                        total - newsize),
                                ptr - SIZE_T_SIZE + newsize),
                    ptr - SIZE_T_SIZE, newsize + 1),
            ptr - SIZE_T_SIZE + newsize)
            EXCEPT !.ret = ptr]

\* lines 508-537: the next block is free and large enough
ReallocNext(s, ptr, newsize, current_size) ==
    NextTake(remove_link(s, ptr - SIZE_T_SIZE + current_size), ptr, newsize,
             GETSIZE(Rd(remove_link(s, ptr - SIZE_T_SIZE + current_size),
                        ptr - SIZE_T_SIZE + current_size)) + current_size)

\* lines 538-568: the previous block is free and large enough
ReallocPrev(s, ptr, newsize, current_size) ==
    GrowInSpan(remove_link(s, PrevHeader(s, ptr - 2 * SIZE_T_SIZE)), ptr,
               PrevHeader(s, ptr - 2 * SIZE_T_SIZE),
               PrevHeader(s, ptr - 2 * SIZE_T_SIZE)
                   + GETSIZE(Rd(remove_link(s, PrevHeader(s, ptr - 2 * SIZE_T_SIZE)),
                                ptr - 2 * SIZE_T_SIZE))
                   + current_size,
               current_size, newsize)

\* lines 583-587, s after mem_sbrk: the tags go to header, ptr is returned
HeapEndTags(s, ptr, header, newsize) ==
    IF s.ret = NULL THEN s
    ELSE [SetTags(s, header, newsize + 1) EXCEPT !.ret = ptr]

\* lines 580-587, s after the payload was moved down to the previous block
HeapEndMoved(s, ptr, newsize, current_size, prev_header) ==
    HeapEndTags(mem_sbrk(s, newsize
                            - (current_size + GETSIZE(Rd(s, prev_header)))),
                ptr, prev_header, newsize)

\* lines 570-588: the block is the last one of the heap
ReallocHeapEnd(s, ptr, newsize, current_size, prev_free) ==
    IF prev_free
    THEN HeapEndMoved(memmove(remove_link(s, PrevHeader(s, ptr - 2 * SIZE_T_SIZE)),
                              PrevHeader(s, ptr - 2 * SIZE_T_SIZE) + SIZE_T_SIZE,
                              ptr, current_size - SIZE_T_SIZE),
                      ptr, newsize, current_size,
                      PrevHeader(s, ptr - 2 * SIZE_T_SIZE))
    ELSE HeapEndTags(mem_sbrk(s, newsize - current_size), ptr,
                     ptr - SIZE_T_SIZE, newsize)

\* lines 592-594, s after mm_malloc and s.ret the pointer it returned
FallbackMove(s, ptr, current_size) ==
    [mm_free(memmove(s, s.ret, ptr, current_size - 2), ptr)
        EXCEPT !.ret = s.ret]

\* lines 590-594: allocate, move, free
ReallocFallback(s, ptr, newsize, current_size) ==
    FallbackMove(mm_malloc(s, newsize), ptr, current_size)

\* lines 608-613, s after the block was tagged with its new size
ShrinkFree(s, ptr, free_block_header, newheader) ==
    [mm_coalesce(add_to_list(SetTags(s, free_block_header, newheader),
                             free_block_header),
                 free_block_header)
        EXCEPT !.ret = ptr]

\* lines 603-609, s after the block was tagged with its new size
ShrinkTagged(s, ptr, newheader) ==
    ShrinkFree(s, ptr, GETFOOTER(s, ptr - SIZE_T_SIZE) + SIZE_T_SIZE, newheader)

\* lines 596-617: newsize <= current_size
ReallocShrink(s, ptr, newsize, current_size) ==
    IF current_size - newsize > 4 * SIZE_T_SIZE
    THEN ShrinkTagged(SetTags(s, ptr - SIZE_T_SIZE, newsize + 1), ptr,
                      current_size - newsize)
    ELSE [s EXCEPT !.ret = ptr]

mm_realloc(s, ptr, size) ==
    LET newsize      == BlockSize(size)
        header       == ptr - SIZE_T_SIZE
        current_size == GETSIZE(Rd(s, ptr - SIZE_T_SIZE))
        end          == mem_heap_hi(s)
        next_header  == (ptr - SIZE_T_SIZE) + GETSIZE(Rd(s, ptr - SIZE_T_SIZE))
        prev_footer  == ptr - 2 * SIZE_T_SIZE
    IN  LET next_header_exists == next_header <= end
            next_free == next_header <= end /\ GETDIRTYBIT(Rd(s, next_header)) = 0
            prev_free == prev_footer >= start /\ GETDIRTYBIT(Rd(s, prev_footer)) = 0
            next_size == GETSIZE(Rd(s, next_header))
            prev_size == GETSIZE(Rd(s, prev_footer))
        IN  IF header \notin DOMAIN s.mem
              THEN [s EXCEPT !.fault = TRUE, !.ret = NULL]
            ELSE IF newsize <= current_size
              THEN ReallocShrink(s, ptr, newsize, current_size)
            ELSE IF next_header_exists /\ next_header \notin DOMAIN s.mem
              THEN [s EXCEPT !.fault = TRUE, !.ret = NULL]
            ELSE IF prev_free /\ next_free
                    /\ next_size + current_size + prev_size >= newsize
              THEN ReallocSandwich(s, ptr, newsize, current_size)
            ELSE IF next_free /\ next_size + current_size >= newsize
              THEN ReallocNext(s, ptr, newsize, current_size)
            ELSE IF prev_free /\ prev_size + current_size >= newsize
              THEN ReallocPrev(s, ptr, newsize, current_size)
            ELSE IF ~next_header_exists
              THEN ReallocHeapEnd(s, ptr, newsize, current_size, prev_free)
            ELSE ReallocFallback(s, ptr, newsize, current_size)

(***************************************************************************)
(* mm_check: the set of messages the checker prints before exit(0); the    *)
(* empty set when it returns.  "hang" stands for a walk that never ends.   *)
(***************************************************************************)
\* lines 359-369: one bucket, first loop
RECURSIVE CheckBucket(_, _, _, _)
CheckBucket(s, current_free_block, i, fuel) ==
    IF current_free_block = NULL THEN {}
    ELSE IF fuel = 0 \/ current_free_block \notin DOMAIN s.mem THEN {"hang"}
    ELSE IF GETDIRTYBIT(Rd(s, current_free_block)) = 1 THEN {"flist"}
    ELSE IF GETSIZE(Rd(s, current_free_block)) < 2 ^ (i + 5) THEN {"sizepb"}
    ELSE CheckBucket(s, GETNEXTFREE(s, current_free_block), i, fuel - 1)

\* the heap walks of lines 377-386, 392-406, 412-420: the blocks visited
\* from current_block while current_block < end
RECURSIVE CheckWalk(_, _, _)
CheckWalk(s, current_block, fuel) ==
    IF current_block >= mem_heap_hi(s) THEN << >>
    ELSE IF fuel = 0 \/ current_block \notin DOMAIN s.mem THEN << -1 >>
    ELSE << current_block >> \o CheckWalk(s, GETNEXTBLOCK(s, current_block), fuel - 1)

\* lines 395-403: is current_block linked in the bucket of its size
RECURSIVE InBucket(_, _, _, _)
InBucket(s, current_free_block, current_block, fuel) ==
    IF current_free_block = NULL \/ fuel = 0
       \/ current_free_block \notin DOMAIN s.mem THEN FALSE
    ELSE IF current_free_block = current_block THEN TRUE
    ELSE InBucket(s, GETNEXTFREE(s, current_free_block), current_block, fuel - 1)

mm_check(s) ==
    LET lists == UNION {CheckBucket(s, Rd(s, free_seglist(i)), i, Fuel(s)) :
                          i \in 0..(MAXPOW - 1)}
        walk  == CheckWalk(s, GETNEXTBLOCK(s, start), Fuel(s))
        blks  == {k \in 1..Len(walk) : walk[k] # -1}
        prev_type(k) == IF k = 1 THEN GETDIRTYBIT(Rd(s, start))
                        ELSE GETDIRTYBIT(Rd(s, walk[k - 1]))
        coald == \E k \in blks :
                    prev_type(k) = 0 /\ GETDIRTYBIT(Rd(s, walk[k])) = 0
        finlist == \E k \in blks :
                    /\ GETDIRTYBIT(Rd(s, walk[k])) = 0
                    /\ ~InBucket(s, Rd(s, free_seglist(
                                     seglist_index(GETSIZE(Rd(s, walk[k]))))),
                                 walk[k], Fuel(s))
        coherent == \E k \in blks :
                    GETSIZE(Rd(s, walk[k])) #
                        GETSIZE(Rd(s, GETFOOTER(s, walk[k])))
    IN  lists
        \cup (IF \E k \in 1..Len(walk) : walk[k] = -1 THEN {"hang"} ELSE {})
        \cup (IF coald THEN {"coald"} ELSE {})
        \cup (IF finlist THEN {"finlist"} ELSE {})
        \cup (IF coherent THEN {"coherent"} ELSE {})

(***************************************************************************)
(* The state machine: a client calling the API.                            *)
(***************************************************************************)
VARIABLES
    mem,     \* the heap provider's array, one cell per 8-byte word
    brk,     \* the break: the heap is [HeapLo, brk)
    fault,   \* the program ran into undefined behaviour and stopped
    ptrs,    \* the client's pointer variables, NULL when unused
    req,     \* the size the client requested for each of them
    stale,   \* pointers freed since the last allocation
    op,      \* the last API call: kind, arguments, result; for a free, n
             \* is the size its block had when the call was made
    nops     \* number of API calls made

vars == << mem, brk, fault, ptrs, req, stale, op, nops >>

\* request sizes the client uses
MallocSizes == {0, 16, 56}

ReallocSizes == {16, 120}

Slots == 1..MaxLive

\* the machine state the C functions run on
Machine == [mem |-> mem, brk |-> brk, fault |-> FALSE, oom |-> FALSE, ret |-> NULL]

\* what the client stores in a word of a block it was given: a value that
\* tells the word it was written to, and is no size and no address
Data(a) == 1048576 + a

\* the client fills the whole words of the size bytes it asked for
Fill(m, p, size) ==
    [a \in DOMAIN m |->
        IF a >= p /\ a + 8 <= p + size THEN Data(a) ELSE m[a]]

\* mm_init: the bucket array is claimed and cleared
mm_init(m) ==
    [mem_sbrk([mem |-> m, brk |-> HeapLo, fault |-> FALSE, oom |-> FALSE,
               ret |-> NULL], ALIGN(MAXPOW * 8))
        EXCEPT !.mem = [a \in DOMAIN m |->
                          IF a < free_seglist(MAXPOW) THEN NULL ELSE m[a]],
               !.ret = 1]

Init ==
    /\ mem = mm_init([a \in Addrs(MaxHeapWords) |-> 0]).mem
    /\ brk = mm_init([a \in Addrs(MaxHeapWords) |-> 0]).brk
    /\ fault = FALSE
    /\ ptrs = [i \in Slots |-> NULL]
    /\ req = [i \in Slots |-> 0]
    /\ stale = {}
    /\ op = [kind |-> "init", p |-> NULL, n |-> 0, ret |-> 1, oom |-> FALSE]
    /\ nops = 0

CanCall == ~fault /\ nops < MaxOps

Malloc(i, n) ==
    /\ CanCall
    /\ ptrs[i] = NULL
    /\ \A j \in Slots : j < i => ptrs[j] # NULL
    /\ LET s == mm_malloc(Machine, n)
           got == ~s.fault /\ s.ret # NULL
       IN  /\ mem' = IF s.fault THEN mem
                     ELSE IF got THEN Fill(s.mem, s.ret, n) ELSE s.mem
           /\ brk' = IF s.fault THEN brk ELSE s.brk
           /\ fault' = s.fault
           /\ ptrs' = IF got THEN [ptrs EXCEPT ![i] = s.ret] ELSE ptrs
           /\ req' = IF got THEN [req EXCEPT ![i] = n] ELSE req
           /\ op' = [kind |-> "malloc", p |-> NULL, n |-> n, ret |-> s.ret,
                     oom |-> s.oom]
    /\ stale' = {}
    /\ nops' = nops + 1

Free(i) ==
    /\ CanCall
    /\ ptrs[i] # NULL
    /\ LET s == mm_free(Machine, ptrs[i])
       IN  /\ mem' = IF s.fault THEN mem ELSE s.mem
           /\ brk' = IF s.fault THEN brk ELSE s.brk
           /\ fault' = s.fault
           /\ op' = [kind |-> "free", p |-> ptrs[i],
                     n |-> GETSIZE(Rd(Machine, ptrs[i] - SIZE_T_SIZE)),
                     ret |-> s.ret, oom |-> s.oom]
    /\ ptrs' = [ptrs EXCEPT ![i] = NULL]
    /\ req' = [req EXCEPT ![i] = 0]
    /\ stale' = {q \in stale : \A j \in Slots : j # i => ptrs[j] # q}
                  \cup {ptrs[i]}
    /\ nops' = nops + 1

Realloc(i, n) ==
    /\ CanCall
    /\ ptrs[i] # NULL
    /\ LET s == mm_realloc(Machine, ptrs[i], n)
           got == ~s.fault /\ s.ret # NULL
       IN  /\ mem' = IF s.fault THEN mem ELSE s.mem
           /\ brk' = IF s.fault THEN brk ELSE s.brk
           /\ fault' = s.fault
           /\ ptrs' = IF got THEN [ptrs EXCEPT ![i] = s.ret] ELSE ptrs
           /\ req' = IF got THEN [req EXCEPT ![i] = n] ELSE req
           /\ op' = [kind |-> "realloc", p |-> ptrs[i], n |-> n, ret |-> s.ret,
                     oom |-> s.oom]
    /\ stale' = {}
    /\ nops' = nops + 1

\* a free the client must not make: a pointer it already freed
DoubleFree(p) ==
    /\ CanCall
    /\ p \in stale
    /\ \A j \in Slots : ptrs[j] # p
    /\ LET s == mm_free(Machine, p)
       IN  /\ mem' = IF s.fault THEN mem ELSE s.mem
           /\ brk' = IF s.fault THEN brk ELSE s.brk
           /\ fault' = s.fault
           /\ op' = [kind |-> "dfree", p |-> p, n |-> 0, ret |-> s.ret,
                     oom |-> s.oom]
    /\ UNCHANGED << ptrs, req, stale >>
    /\ nops' = nops + 1

Next ==
    \/ \E i \in Slots, n \in MallocSizes : Malloc(i, n)
    \/ \E i \in Slots : Free(i)
    \/ \E i \in Slots, n \in ReallocSizes : Realloc(i, n)

\* valid traces: no double free, no use of a freed pointer
Spec == Init /\ [][Next]_vars

NextDF ==
    \/ Next
    \/ \E p \in stale : DoubleFree(p)

\* traces in which the client may also free a pointer twice
SpecDF == Init /\ [][NextDF]_vars

\* request sizes whose blocks lie above the 400-byte threshold of mm_malloc
BigMallocSizes == {392, 400}

BigReallocSizes == {16, 400}

InitBig ==
    /\ mem = mm_init([a \in Addrs(BigHeapWords) |-> 0]).mem
    /\ brk = mm_init([a \in Addrs(BigHeapWords) |-> 0]).brk
    /\ fault = FALSE
    /\ ptrs = [i \in Slots |-> NULL]
    /\ req = [i \in Slots |-> 0]
    /\ stale = {}
    /\ op = [kind |-> "init", p |-> NULL, n |-> 0, ret |-> 1, oom |-> FALSE]
    /\ nops = 0

NextBig ==
    \/ \E i \in Slots, n \in BigMallocSizes : Malloc(i, n)
    \/ \E i \in Slots : Free(i)
    \/ \E i \in Slots, n \in BigReallocSizes : Realloc(i, n)

\* valid traces with big blocks
SpecBig == InitBig /\ [][NextBig]_vars

(***************************************************************************)
(* The heap as the claims see it.                                          *)
(***************************************************************************)
\* the blocks found by walking from the first block address by header size
HeapBlocks == CheckWalk(Machine, start, Fuel(Machine))

BlockSet == {HeapBlocks[k] : k \in 1..Len(HeapBlocks)} \ {-1}

IsFree(b) == GETDIRTYBIT(mem[b]) = 0

\* the entries of bucket i, read from its head along the next links
RECURSIVE ListFrom(_, _)
ListFrom(b, fuel) ==
    IF b = NULL \/ fuel = 0 \/ b \notin DOMAIN mem THEN << >>
    ELSE << b >> \o ListFrom(GETNEXTFREE(Machine, b), fuel - 1)

Bucket(i) == ListFrom(mem[free_seglist(i)], Fuel(Machine))

\* how many times block b is linked, over all buckets
Links(b) ==
    Cardinality({<< i, k >> \in (0..(MAXPOW - 1)) \X (1..Fuel(Machine)) :
                    k <= Len(Bucket(i)) /\ Bucket(i)[k] = b})

Linked == UNION {{Bucket(i)[k] : k \in 1..Len(Bucket(i))} : i \in 0..(MAXPOW - 1)}

Live == {i \in Slots : ptrs[i] # NULL}

(***************************************************************************)
(* Claims.                                                                 *)
(***************************************************************************)
\* C1: on a valid trace the regions of two distinct live pointers, each as
\* long as the size requested for it, never overlap.
C1_NoOverlap ==
    ~fault =>
      \A i, j \in Live :
          i # j => (ptrs[i] + req[i] <= ptrs[j] \/ ptrs[j] + req[j] <= ptrs[i])

\* C2: on a valid trace every live pointer is 8-byte aligned, the word
\* before it is the header of a block of the heap marked allocated, and the
\* payload of that block is at least as long as the size requested.
C2_LiveBlocks ==
    ~fault =>
      \A i \in Live :
          /\ ptrs[i] % ALIGNMENT = 0
          /\ (ptrs[i] - SIZE_T_SIZE) \in BlockSet
          /\ ~IsFree(ptrs[i] - SIZE_T_SIZE)
          /\ GETSIZE(mem[ptrs[i] - SIZE_T_SIZE]) - 2 * SIZE_T_SIZE >= req[i]

\* the whole words within the first n bytes at q after the call equal
\* those at p before it
SamePrefix(p, q, n) ==
    \A k \in 0..Fuel(Machine) :
        8 * k + 8 <= n =>
            /\ (p + 8 * k) \in DOMAIN mem
            /\ (q + 8 * k) \in DOMAIN mem
            /\ mem'[q + 8 * k] = mem[p + 8 * k]

Min(a, b) == IF a < b THEN a ELSE b

\* C3: a reallocate that returns a non-null pointer q leaves at q the
\* first min(old payload length, n) bytes that were at p before the call.
C3_ReallocKeepsData ==
    [][(op'.kind = "realloc" /\ ~fault' /\ op'.ret # NULL) =>
          SamePrefix(op'.p, op'.ret,
                     Min(GETSIZE(mem[op'.p - SIZE_T_SIZE]) - 2 * SIZE_T_SIZE,
                         op'.n))]_vars

\* C4: between API calls no two address-adjacent blocks are both free.
C4_NoAdjacentFree ==
    ~fault =>
      \A k \in 1..(Len(HeapBlocks) - 1) :
          (HeapBlocks[k] # -1 /\ HeapBlocks[k + 1] # -1) =>
              ~(IsFree(HeapBlocks[k]) /\ IsFree(HeapBlocks[k + 1]))

\* C5: between API calls a block is linked in the index exactly once when
\* its header marks it free and not at all when it marks it allocated, and
\* everything linked is a block of the heap.
C5_LinkedIffFree ==
    ~fault =>
      /\ \A b \in BlockSet : Links(b) = (IF IsFree(b) THEN 1 ELSE 0)
      /\ Linked \subseteq BlockSet

\* C6: between API calls the footer of every block holds the same size and
\* the same allocated flag as its header.
C6_TagsAgree ==
    ~fault =>
      \A b \in BlockSet : Rd(Machine, GETFOOTER(Machine, b)) = mem[b]

\* C7: allocate(0) returns null and leaves the heap size and every word of
\* the heap (headers, footers, links, bucket heads) unchanged.
C7_MallocZero ==
    [][(op'.kind = "malloc" /\ op'.n = 0) =>
          (op'.ret = NULL /\ ~fault' /\ mem' = mem /\ brk' = brk)]_vars

\* C7 witness: allocate(0) was called on a heap that holds a live block
\* and a linked free block.
C7_Witness ==
    /\ op.kind = "malloc" /\ op.n = 0 /\ op.ret = NULL /\ ~fault
    /\ Live # {}
    /\ \E i \in 0..(MAXPOW - 1) : mem[free_seglist(i)] # NULL

\* C8: deallocate of a pointer already freed is detected (the call warns
\* and returns) and changes no word of the heap.
C8_DoubleFreeDetected ==
    [][(op'.kind = "dfree" /\ ~fault') =>
          (op'.ret = 1 /\ mem' = mem /\ brk' = brk)]_vars

\* C9: when the heap provider refuses an extension during allocate or
\* reallocate, the call returns null and the heap is what it was before.
C9_RefusalLeavesHeap ==
    [][(op'.kind \in {"malloc", "realloc"} /\ op'.oom /\ ~fault') =>
          (op'.ret = NULL /\ mem' = mem /\ brk' = brk)]_vars

\* C10: on a valid trace the consistency checker, run between two calls,
\* reports nothing.
C10_CheckerSilent == ~fault => mm_check(Machine) = {}

\* Scenario A before its last call: p1 = allocate(16), p2 = allocate(16)
\* and deallocate(p1) were the three calls made, p1 being the first block
ScenarioA_Freed ==
    /\ nops = 3 /\ ~fault
    /\ op.kind = "free" /\ op.p = start + SIZE_T_SIZE
    /\ mem[start] = BlockSize(16)
    /\ ptrs[1] = NULL /\ ptrs[2] # NULL /\ req[2] = 16

\* C11: Scenario A: after p1 = allocate(16), p2 = allocate(16) and
\* deallocate(p1), the call allocate(16) returns p1 and does not grow the
\* heap.
C11_ScenarioA ==
    [][(ScenarioA_Freed /\ op'.kind = "malloc" /\ op'.n = 16) =>
          (op'.ret = op.p /\ brk' = brk)]_vars

Max(a, b) == IF a > b THEN a ELSE b

\* the blocks that end where block b starts
Below(b) == {a \in BlockSet : a + GETSIZE(mem[a]) = b}

\* the blocks on the outer sides of the span from lo to the end of hi are
\* allocated, or there is none
OuterAllocated(lo, hi) ==
    /\ \A a \in Below(lo) : ~IsFree(a)
    /\ \/ hi + GETSIZE(mem[hi]) >= brk
       \/ GETDIRTYBIT(Rd(Machine, hi + GETSIZE(mem[hi]))) = 1

\* Scenario D between its two calls: x was just deallocated and stands
\* free with the size it had, y is allocated and adjacent to it
ScenarioD_Pair(x, y) ==
    /\ ~fault /\ op.kind = "free"
    /\ x \in BlockSet /\ y \in BlockSet
    /\ IsFree(x) /\ GETSIZE(mem[x]) = op.n
    /\ ~IsFree(y)
    /\ (x + GETSIZE(mem[x]) = y \/ y + GETSIZE(mem[y]) = x)
    /\ OuterAllocated(Min(x, y), Max(x, y))

\* after the call: one free block at lo of size total, linked once and in
\* the bucket of total; nothing is linked at hi
ScenarioD_Merged(lo, hi, total) ==
    /\ ~fault'
    /\ lo \in BlockSet'
    /\ mem'[lo] = total
    /\ Links(lo)' = 1
    /\ \E k \in 1..Len(Bucket(seglist_index(total))') :
           Bucket(seglist_index(total))'[k] = lo
    /\ hi \notin Linked'

\* C12: Scenario D: two address-adjacent allocated blocks whose outer
\* neighbours are allocated or absent are deallocated one after the other,
\* in either order; after the second call one free block covers both, its
\* size is the sum of theirs, it is linked once, in the bucket of that
\* size, and the upper block is no entry of the index.
C12_ScenarioD ==
    [][\A x \in {op.p - SIZE_T_SIZE}, y \in {op'.p - SIZE_T_SIZE} :
         \A total \in {GETSIZE(Rd(Machine, x)) + GETSIZE(Rd(Machine, y))} :
           (op'.kind = "free" /\ ScenarioD_Pair(x, y)) =>
               ScenarioD_Merged(Min(x, y), Max(x, y), total)]_vars

\* block h is allocated, is not the last block, and the blocks before and
\* after it are allocated (or there is none before it)
NoFreeNeighbour(h) ==
    /\ h \in BlockSet /\ ~IsFree(h)
    /\ h + GETSIZE(mem[h]) < brk
    /\ (h + GETSIZE(mem[h])) \in BlockSet
    /\ ~IsFree(h + GETSIZE(mem[h]))
    /\ \A a \in Below(h) : ~IsFree(a)

\* after the call the bytes of block h lie in a free block that is linked
\* once and has no free block next to it
Reclaimed(h) ==
    \E f \in BlockSet' :
        /\ GETDIRTYBIT(mem'[f]) = 0
        /\ f <= h /\ h < f + mem'[f]
        /\ Links(f)' = 1
        /\ \A g \in BlockSet' :
               (g + GETSIZE(mem'[g]) = f \/ f + mem'[f] = g) =>
                   GETDIRTYBIT(mem'[g]) = 1

\* C13: Scenario B: a reallocate that grows a live block with no free
\* neighbour that is not the last block of the heap, and that the heap
\* provider does not refuse, returns another pointer, to an allocated block
\* large enough, holding the old payload; the old block is free, merged
\* with its free neighbours and linked.
C13_FallbackGrow ==
    [][\A h \in {op'.p - SIZE_T_SIZE}, q \in {op'.ret} :
         (/\ op'.kind = "realloc" /\ ~fault /\ ~op'.oom
          /\ NoFreeNeighbour(h)
          /\ BlockSize(op'.n) > GETSIZE(mem[h])) =>
             /\ ~fault'
             /\ q # NULL /\ q # op'.p
             /\ (q - SIZE_T_SIZE) \in BlockSet'
             /\ GETDIRTYBIT(mem'[q - SIZE_T_SIZE]) = 1
             /\ GETSIZE(mem'[q - SIZE_T_SIZE]) - 2 * SIZE_T_SIZE >= op'.n
             /\ SamePrefix(op'.p, q,
                           Min(GETSIZE(mem[h]) - 2 * SIZE_T_SIZE, op'.n))
             /\ Reclaimed(h)]_vars

\* after the call block f is free, is an entry of the bucket of its size,
\* and the block after it, when there is one, is allocated
TailLinked(f) ==
    /\ f \in BlockSet'
    /\ GETDIRTYBIT(mem'[f]) = 0
    /\ \E i \in {seglist_index(mem'[f])} :
           \E k \in 1..Len(Bucket(i)') : Bucket(i)'[k] = f
    /\ \A g \in BlockSet' : f + mem'[f] = g => GETDIRTYBIT(mem'[g]) = 1

\* C14: Scenario C: a reallocate to a block size not above the current one
\* returns the same pointer.  When the difference exceeds 32 bytes the
\* block is resized and a free block starts right after it, merged with a
\* free successor and linked in the bucket of its final size; otherwise no
\* word of the heap changes.
C14_Shrink ==
    [][\A h \in {op'.p - SIZE_T_SIZE}, newsize \in {BlockSize(op'.n)} :
         (/\ op'.kind = "realloc" /\ ~fault
          /\ h \in BlockSet /\ ~IsFree(h)
          /\ newsize <= GETSIZE(mem[h])) =>
             /\ ~fault'
             /\ op'.ret = op'.p
             /\ IF GETSIZE(mem[h]) - newsize > MinBlock
                THEN mem'[h] = newsize + 1 /\ TailLinked(h + newsize)
                ELSE mem' = mem /\ brk' = brk]_vars

\* block b is an entry of bucket i
EntryOf(b, i) == \E k \in 1..Len(Bucket(i)) : Bucket(i)[k] = b

\* C15: between API calls every free block is an entry of the bucket whose
\* index is seglist_index of the size in its header.
C15_BucketOfSize ==
    ~fault =>
      \A b \in BlockSet :
          IsFree(b) => EntryOf(b, seglist_index(GETSIZE(mem[b])))

\* C16: between API calls the entries of every bucket, read from the head
\* along the next links, are in non-decreasing order of block size.
C16_BucketsSorted ==
    ~fault =>
      \A i \in 0..(MAXPOW - 1) :
          \A k \in 1..(Len(Bucket(i)) - 1) :
              GETSIZE(Rd(Machine, Bucket(i)[k]))
                  <= GETSIZE(Rd(Machine, Bucket(i)[k + 1]))

\* the address the walk over the blocks ends at
WalkEnd ==
    IF Len(HeapBlocks) = 0 THEN start
    ELSE HeapBlocks[Len(HeapBlocks)]
             + GETSIZE(Rd(Machine, HeapBlocks[Len(HeapBlocks)]))

\* C17: between API calls the region above the bucket array is exactly
\* partitioned into blocks: the walk from the first block address by header
\* sizes visits blocks whose sizes are multiples of 8 and at least 32, and
\* ends exactly at the high end of the heap.
C17_Partition ==
    ~fault =>
      /\ \A k \in 1..Len(HeapBlocks) :
            /\ HeapBlocks[k] # -1
            /\ GETSIZE(Rd(Machine, HeapBlocks[k])) % ALIGNMENT = 0
            /\ GETSIZE(Rd(Machine, HeapBlocks[k])) >= MinBlock
      /\ WalkEnd = brk

\* the heap holds no block yet, or the block that ends at the high end of
\* the heap is allocated
NoneOrLastAllocated ==
    \/ brk = start
    \/ /\ Len(HeapBlocks) > 0
       /\ HeapBlocks[Len(HeapBlocks)] # -1
       /\ WalkEnd = brk
       /\ ~IsFree(HeapBlocks[Len(HeapBlocks)])

\* C18: when allocate finds no fitting free block and the heap holds no
\* block yet or its last block is allocated, the heap grows by exactly need
\* and the new region is allocated whole if need > 400; otherwise it grows
\* by exactly 2*need, the first half is returned allocated and the second
\* half is a free block of size need linked in the index.
C18_ExtendFresh ==
    [][\A need \in {BlockSize(op'.n)}, old \in {brk} :
         (/\ op'.kind = "malloc" /\ op'.n > 0 /\ ~fault /\ ~op'.oom
          /\ get_optimal_free_block(Machine, need) = NULL
          /\ NoneOrLastAllocated) =>
             /\ ~fault'
             /\ op'.ret = old + SIZE_T_SIZE
             /\ mem'[old] = need + 1
             /\ IF need > BigBlock
                THEN brk' = old + need
                ELSE /\ brk' = old + 2 * need
                     /\ mem'[old + need] = need
                     /\ Links(old + need)' = 1]_vars

\* the block that ends at the high end of the heap is free and larger than
\* 400 bytes
LastFreeBig ==
    /\ Len(HeapBlocks) > 0
    /\ HeapBlocks[Len(HeapBlocks)] # -1
    /\ WalkEnd = brk
    /\ IsFree(HeapBlocks[Len(HeapBlocks)])
    /\ GETSIZE(mem[HeapBlocks[Len(HeapBlocks)]]) > BigBlock

\* C19: when allocate finds no fitting free block and the last block of the
\* heap is free and larger than 400 bytes, that block leaves the index, the
\* heap grows by exactly need minus its size, and the block returned starts
\* at its address and has size need.
C19_ExtendLast ==
    [][\A need \in {BlockSize(op'.n)}, old \in {brk} :
         (/\ op'.kind = "malloc" /\ op'.n > 0 /\ ~fault /\ ~op'.oom
          /\ get_optimal_free_block(Machine, need) = NULL
          /\ LastFreeBig) =>
             \A last \in {HeapBlocks[Len(HeapBlocks)]} :
                /\ ~fault'
                /\ op'.ret = last + SIZE_T_SIZE
                /\ mem'[last] = need + 1
                /\ brk' = old + need - GETSIZE(mem[last])
                /\ last \notin Linked']_vars

\* the positions in bucket i of the entries of size at least need
Fits(i, need) ==
    {k \in 1..Len(Bucket(i)) : GETSIZE(Rd(Machine, Bucket(i)[k])) >= need}

\* the buckets, from the bucket of need upward, that hold such an entry
FitBuckets(need) ==
    {i \in seglist_index(need)..(MAXPOW - 1) : Fits(i, need) # {}}

\* r is a smallest entry of size at least need of the first such bucket
BestFit(r, need) ==
    \E j \in FitBuckets(need) :
        /\ \A i \in FitBuckets(need) : j <= i
        /\ \E k \in Fits(j, need) : Bucket(j)[k] = r
        /\ \A k \in Fits(j, need) :
               GETSIZE(Rd(Machine, r)) <= GETSIZE(Rd(Machine, Bucket(j)[k]))

\* C20: between API calls, for the block size of every request the client
\* makes, get_optimal_free_block returns a smallest entry of size at least
\* that size of the first bucket, from the bucket of the size upward, that
\* holds one, and NULL only when no bucket does.
C20_BestFit ==
    ~fault =>
      \A need \in {BlockSize(n) : n \in MallocSizes \ {0}} :
          IF FitBuckets(need) = {}
          THEN get_optimal_free_block(Machine, need) = NULL
          ELSE BestFit(get_optimal_free_block(Machine, need), need)

\* block h is allocated, the block a before it is free, the block after h
\* is allocated or there is none, and the two together can hold newsize
PrevOnly(a, h, newsize) ==
    /\ h \in BlockSet /\ ~IsFree(h)
    /\ a \in Below(h) /\ IsFree(a)
    /\ \/ h + GETSIZE(mem[h]) >= brk
       \/ GETDIRTYBIT(Rd(Machine, h + GETSIZE(mem[h]))) = 1
    /\ newsize > GETSIZE(mem[h])
    /\ GETSIZE(mem[a]) + GETSIZE(mem[h]) >= newsize

\* after the call the span of total bytes at a holds the block returned at
\* q, and a leftover of at least 32 bytes is a free block at a, linked once
GrownInSpan(a, q, total, newsize) ==
    /\ q # NULL
    /\ q - SIZE_T_SIZE >= a
    /\ (q - SIZE_T_SIZE) \in BlockSet'
    /\ GETDIRTYBIT(mem'[q - SIZE_T_SIZE]) = 1
    /\ GETSIZE(mem'[q - SIZE_T_SIZE]) >= newsize
    /\ (q - SIZE_T_SIZE) + GETSIZE(mem'[q - SIZE_T_SIZE]) = a + total
    /\ IF total - newsize >= MinBlock
       THEN /\ q - SIZE_T_SIZE = a + (total - newsize)
            /\ mem'[a] = total - newsize
            /\ Links(a)' = 1
       ELSE /\ q - SIZE_T_SIZE = a
            /\ a \notin Linked'

\* C21: prev-only grow: a reallocate that grows a live block whose previous
\* block is free, whose next block is allocated or absent, and that fits
\* together with the previous block, is served inside the two blocks: the
\* heap is not extended, the block returned lies in their span, and a
\* leftover of at least 32 bytes is a free block at the previous block's
\* address, linked in the index.
C21_PrevOnlyGrow ==
    [][\A h \in {op'.p - SIZE_T_SIZE}, newsize \in {BlockSize(op'.n)} :
         \A a \in Below(h) :
           (op'.kind = "realloc" /\ ~fault /\ PrevOnly(a, h, newsize)) =>
               /\ ~fault'
               /\ brk' = brk
               /\ GrownInSpan(a, op'.ret,
                              GETSIZE(mem[a]) + GETSIZE(mem[h]), newsize)]_vars

\* block h is allocated, the block behind it is free and the two together
\* can hold newsize, and the block before h does not read as free
NextOnly(h, newsize) ==
    /\ h \in BlockSet /\ ~IsFree(h)
    /\ newsize > GETSIZE(mem[h])
    /\ h + GETSIZE(mem[h]) < brk
    /\ (h + GETSIZE(mem[h])) \in BlockSet
    /\ IsFree(h + GETSIZE(mem[h]))
    /\ GETSIZE(mem[h + GETSIZE(mem[h])]) + GETSIZE(mem[h]) >= newsize
    /\ \/ h = start
       \/ GETDIRTYBIT(mem[h - SIZE_T_SIZE]) = 1

\* the payload words of block h are what they were before the step
PayloadKept(h) ==
    \A a \in DOMAIN mem :
        (h < a /\ a < h + GETSIZE(mem[h]) - SIZE_T_SIZE) => mem'[a] = mem[a]

\* after the step block h has newsize bytes and the rest of the total bytes
\* is a free block, linked in the index; or h has all of total
GrownInPlace(h, total, newsize) ==
    IF total - newsize >= MinBlock
    THEN /\ mem'[h] = newsize + 1
         /\ mem'[h + newsize - SIZE_T_SIZE] = newsize + 1
         /\ mem'[h + newsize] = total - newsize
         /\ mem'[h + total - SIZE_T_SIZE] = total - newsize
         /\ (h + newsize) \in BlockSet'
         /\ (h + newsize) \in Linked'
    ELSE /\ mem'[h] = total + 1
         /\ mem'[h + total - SIZE_T_SIZE] = total + 1
         /\ h \in BlockSet'
         /\ \A b \in BlockSet' : ~(h < b /\ b < h + total)

\* C22: next-only grow: a reallocate that grows a live block whose next
\* block is free and large enough together with it, the sandwich case not
\* applying, returns the same pointer, leaves the heap's end and the payload
\* where they were, and gives the block newsize bytes with the leftover of
\* at least 32 bytes a free block linked in the index, or both blocks whole
\* with no block left between.
C22_NextOnlyGrow ==
    [][\A h \in {op'.p - SIZE_T_SIZE}, newsize \in {BlockSize(op'.n)} :
         (op'.kind = "realloc" /\ ~fault /\ NextOnly(h, newsize)) =>
             /\ ~fault'
             /\ op'.ret = op'.p
             /\ brk' = brk
             /\ PayloadKept(h)
             /\ GrownInPlace(h, GETSIZE(mem[h])
                                  + GETSIZE(mem[h + GETSIZE(mem[h])]),
                             newsize)]_vars

\* some free block of the heap has at least need bytes
FreeBlockFits(need) ==
    \E b \in BlockSet : IsFree(b) /\ GETSIZE(mem[b]) >= need

\* C23: an allocate that asks the heap provider for memory, granted or
\* refused, does so only when no free block of the heap has need bytes or
\* more, and no step of any operation moves the end of the heap down.
C23_ExtendOnlyWhenNeeded ==
    [][/\ brk' >= brk
       /\ (op'.kind = "malloc" /\ op'.n > 0 /\ ~fault
             /\ (brk' # brk \/ op'.oom)) =>
                ~FreeBlockFits(BlockSize(op'.n))]_vars

====
